---- MODULE Spec2Model ----
(***************************************************************************)
(* Model of the file/log parsing engine of LogMind                         *)
(* (src/tools/parsers/file_parse.py, src/tools/parsers/logparser.py):      *)
(* the strategy dispatcher FileParser, the four built-in strategies        *)
(* (CSVParser, JSONLParser, LogParser, TXTParser) as Python generators,    *)
(* and LogParser.detect_format with the Nginx and Apache sub-parsers.      *)
(***************************************************************************)
EXTENDS Integers, Sequences, FiniteSets, TLC

(***************************************************************************)
(* Bounds of the model                                                     *)
(***************************************************************************)
\* longest file whose every line combination is enumerated (detection)
MaxShortLen == 3
\* registered sub-parsers of the LogParser
MaxSubParsers == 2
\* custom strategies registered on the dispatcher
MaxCustom == 1
\* parse sessions (generators) alive on the dispatcher
MaxSessions == 2
\* rows per chunk of the tabular strategy (stands for chunksize=1000)
ChunkRows == 2
\* pulls followed on one generator after it has ended
MaxStops == 1

\* most data rows of a tabular file whose every row count is enumerated
MaxRows == 5

(***************************************************************************)
(* Program constants                                                       *)
(***************************************************************************)
\* detect_format(..., sample_size: int = 10)
DefaultSampleSize == 10
\* match_count >= len(sample_lines) * 0.7, as the fraction 7/10.  The float
\* product n * 0.7 compares with an integer count exactly as 7n/10 does for
\* every n up to 20000 (checked by enumeration), far above any sample here.
ThresholdNum == 7
ThresholdDen == 10

None == "None"

(***************************************************************************)
(* Paths: a str is a sequence of characters                                *)
(***************************************************************************)
UpperCase == <<"A","B","C","D","E","F","G","H","I","J","K","L","M",
               "N","O","P","Q","R","S","T","U","V","W","X","Y","Z">>
LowerCase == <<"a","b","c","d","e","f","g","h","i","j","k","l","m",
               "n","o","p","q","r","s","t","u","v","w","x","y","z">>

LowerChar(c) ==
    IF \E i \in 1..26 : UpperCase[i] = c
    THEN LowerCase[CHOOSE i \in 1..26 : UpperCase[i] = c]
    ELSE c

\* str.lower()
Lower(s) == [i \in 1..Len(s) |-> LowerChar(s[i])]

\* str.endswith(suffix)
EndsWith(s, suffix) ==
    /\ Len(s) >= Len(suffix)
    /\ SubSeq(s, Len(s) - Len(suffix) + 1, Len(s)) = suffix

PathCsv   == <<"x",".","c","s","v">>
PathJsonl == <<"b",".","j","s","o","n","l">>
PathLog   == <<"c",".","l","o","g">>
PathLogUp == <<"D",".","L","O","G">>
PathTxt   == <<"e",".","t","x","t">>
PathJson  == <<"x",".","j","s","o","n">>

Paths == {PathCsv, PathJsonl, PathLog, PathLogUp, PathTxt, PathJson}

(***************************************************************************)
(* Lines.  A physical line is its text plus surrounding whitespace (the    *)
(* newline, possibly blanks); strip() keeps the text only.                 *)
(***************************************************************************)
\* combined format, "+0800", HTTP/1.1
CombinedLine == "1.1.1.1 - - [22/May/2025:10:00:00 +0800] \"GET / HTTP/1.1\" 200 5 \"-\" \"ua\""
\* combined format with a negative zone offset
MinusZoneLine == "1.1.1.1 - - [22/May/2025:10:00:00 -0500] \"GET / HTTP/1.1\" 200 5 \"-\" \"ua\""
\* common log format: no referer and user agent
CommonLine == "1.1.1.1 - - [22/May/2025:10:00:00 +0800] \"GET / HTTP/1.1\" 200 5"
\* combined format whose protocol is not HTTP/d.d
Http2Line == "1.1.1.1 - - [22/May/2025:10:00:00 +0800] \"GET / HTTP/2\" 200 5 \"-\" \"ua\""
PlainLine == "hello world"
JsonOkLine == "{\"k\": 1}"
JsonBadLine == "{bad"
CsvHeader == "id,name"
CsvRow1 == "1,a"
CsvRow2 == "2,b"
CsvRow3 == "3,c"

Line(text) == [text |-> text, pad |-> FALSE]
PaddedLine(text) == [text |-> text, pad |-> TRUE]

\* str.strip()
Strip(line) == line.text

(***************************************************************************)
(* Sub-parsers (logparser.py)                                              *)
(***************************************************************************)
Nginx == "NginxLogSubParser"
Apache == "ApacheLogSubParser"
Matchers == {Nginx, Apache}

\* NginxLogSubParser.can_parse: DETECTION_PATTERN.match(line)
NginxCanParse(text) == text \in {CombinedLine, Http2Line}

\* ApacheLogSubParser.can_parse: DETECTION_PATTERN.match(line)
ApacheCanParse(text) == text \in {CombinedLine, MinusZoneLine, CommonLine}

CanParse(m, text) ==
    IF m = Nginx THEN NginxCanParse(text) ELSE ApacheCanParse(text)

\* parse_line of both sub-parsers: parsing_pattern.search(line), the group
\* dictionary of the line or None
ParseLine(m, text) ==
    IF text \in {CombinedLine, MinusZoneLine, Http2Line}
    THEN [fields |-> text]
    ELSE [fields |-> None]

\* "if parsed_data:" a group dictionary is truthy, None is not
Truthy(parsed_data) == parsed_data.fields # None

(***************************************************************************)
(* Files.  A path names a sequence of lines, or a file that open() fails   *)
(* on.                                                                     *)
(***************************************************************************)
Missing == "FileNotFoundError"
Denied == "PermissionError"

File(lines) == [status |-> "ok", lines |-> lines]
MissingFile == [status |-> Missing, lines |-> <<>>]
DeniedFile == [status |-> Denied, lines |-> <<>>]

\* a file that opens, gives the lines up to its first undecodable byte and
\* then fails the read with UnicodeDecodeError (met by detect_format only:
\* the file systems of the parse sessions hold none)
Undecodable == "UnicodeDecodeError"
UndecodableFile(lines) == [status |-> Undecodable, lines |-> lines]

\* open(file_path, 'r') succeeds
Readable(f) == f.status = "ok"

RECURSIVE SeqsUpTo(_, _)
\* every sequence over S of length at most n
SeqsUpTo(S, n) ==
    IF n = 0 THEN {<<>>}
    ELSE LET shorter == SeqsUpTo(S, n - 1)
         IN  shorter \cup {Append(s, x) : s \in {t \in shorter : Len(t) = n - 1}, x \in S}


Min(a, b) == IF a < b THEN a ELSE b

\* least element of a non-empty set of integers
Least(S) == CHOOSE x \in S : \A y \in S : x <= y

(***************************************************************************)
(* State                                                                   *)
(***************************************************************************)
VARIABLES
    fs,               \* the file system: path -> lines, Missing or Denied
    strategies,       \* FileParser._strategies
    sub_parsers,      \* LogParser.sub_parsers of the dispatcher's LogParser
    detected_parser,  \* LogParser._detected_parser
    sessions,         \* the FileParser.parse calls made, each with the
                      \* generator it returned
    lastDetect,       \* what the last direct detect_format call did
    lastSupports      \* what the last direct supports call did

vars == <<fs, strategies, sub_parsers, detected_parser, sessions, lastDetect,
          lastSupports>>

(***************************************************************************)
(* LogParser.detect_format                                                 *)
(***************************************************************************)
\* the physical lines the loop body handles: those with index i < sample_size
SampledPrefix(content, sample_size) ==
    SubSeq(content, 1, Min(sample_size, Len(content)))

\* mutant: the whole file is read before the sample is cut from it
LinesFetchedAll(content, sample_size) == Len(content)

\* the physical lines fetched from the file: the line with i = sample_size
\* is fetched before the break
LinesFetched(content, sample_size) == Min(sample_size + 1, Len(content))

IsNonEmpty(text) == text # ""

\* sample_lines: the stripped, non-empty lines of the sampled prefix
SampleLines(content, sample_size) ==
    LET prefix == SampledPrefix(content, sample_size)
    IN  SelectSeq([i \in 1..Len(prefix) |-> Strip(prefix[i])], IsNonEmpty)

\* match_count of one sub-parser over the sample
MatchCount(m, sample) ==
    Cardinality({i \in 1..Len(sample) : CanParse(m, sample[i])})

\* mutant: the comparison made strict, so that exactly 70% is rejected
ReachesStrictly(count, n) == count * ThresholdDen > n * ThresholdNum

\* match_count >= len(sample_lines) * 0.7
ReachesThreshold(count, n) == count * ThresholdDen >= n * ThresholdNum

\* mutant: the last sub-parser that reaches the threshold
LastMatch(subs, sample) ==
    LET hits == {i \in 1..Len(subs) :
                    MatchCount(subs[i], sample) * ThresholdDen >= Len(sample) * ThresholdNum}
    IN  IF hits = {} THEN None
        ELSE subs[CHOOSE i \in hits : \A j \in hits : j <= i]

\* mutant: the best-scoring sub-parser that reaches the threshold, the
\* earliest-registered among equals
BestMatch(subs, sample) ==
    LET hits == {i \in 1..Len(subs) :
                    MatchCount(subs[i], sample) * ThresholdDen >= Len(sample) * ThresholdNum}
    IN  IF hits = {} THEN None
        ELSE subs[CHOOSE i \in hits :
                     \A j \in hits :
                        \/ MatchCount(subs[j], sample) < MatchCount(subs[i], sample)
                        \/ (MatchCount(subs[j], sample) = MatchCount(subs[i], sample) /\ i <= j)]

\* the loop over self.sub_parsers: the first one that reaches the threshold
FirstMatch(subs, sample) ==
    LET hits == {i \in 1..Len(subs) :
                    ReachesThreshold(MatchCount(subs[i], sample), Len(sample))}
    IN  IF hits = {} THEN None ELSE subs[Least(hits)]

\* mutant: no early return when no sub-parser is registered: the file is
\* opened and sampled all the same
DetectFormatOnUnguarded(subs, f, sample_size) ==
    IF f.status \notin {"ok", Undecodable}
    THEN [returned |-> None, raised |-> None, opened |-> FALSE,
          sample |-> <<>>, fetched |-> 0, handle |-> "none"]
    ELSE IF f.status = Undecodable /\ Len(f.lines) <= sample_size
    THEN [returned |-> None, raised |-> None, opened |-> TRUE,
          sample |-> <<>>, fetched |-> Len(f.lines), handle |-> "closed"]
    ELSE LET sample_lines == SampleLines(f.lines, sample_size)
         IN  [returned |-> FirstMatch(subs, sample_lines),
              raised |-> None, opened |-> TRUE, sample |-> sample_lines,
              fetched |-> LinesFetched(f.lines, sample_size), handle |-> "closed"]

\* detect_format(file_path, sample_size) on sub-parser list subs and file f:
\* the value returned, the exception that reaches the caller, whether the
\* file was opened, the sample, the number of lines fetched and the state
\* of the handle at the return.  open() may fail; a read may fail before the
\* loop has reached its break (both end in "return None"); the with block
\* closes the handle on the normal and on the failing path.
DetectFormatOn(subs, f, sample_size) ==
    IF subs = <<>>
    THEN [returned |-> None, raised |-> None, opened |-> FALSE,
          sample |-> <<>>, fetched |-> 0, handle |-> "none"]
    ELSE IF f.status \notin {"ok", Undecodable}
    THEN [returned |-> None, raised |-> None, opened |-> FALSE,
          sample |-> <<>>, fetched |-> 0, handle |-> "none"]
    ELSE IF f.status = Undecodable /\ Len(f.lines) <= sample_size
    THEN [returned |-> None, raised |-> None, opened |-> TRUE,
          sample |-> <<>>, fetched |-> Len(f.lines), handle |-> "closed"]
    ELSE LET sample_lines == SampleLines(f.lines, sample_size)
         IN  [returned |-> FirstMatch(subs, sample_lines),
              raised |-> None, opened |-> TRUE, sample |-> sample_lines,
              fetched |-> LinesFetched(f.lines, sample_size), handle |-> "closed"]


(***************************************************************************)
(* Strategies and their supports predicates                                *)
(***************************************************************************)
CSVParser == "CSVParser"
JSONLParser == "JSONLParser"
LogParser == "LogParser"
TXTParser == "TXTParser"

\* FileParser.__init__: the built-in strategies in registration order
BuiltIns == <<CSVParser, JSONLParser, LogParser, TXTParser>>

\* strategies a caller writes against FileParserStrategy and registers
CustomA == "CustomA"
CustomB == "CustomB"
Customs == {CustomA, CustomB}

\* mutant: the suffix is compared without lower()
CSVSupportsCaseSensitive(path) == EndsWith(path, <<".","c","s","v">>)

CSVSupports(path) == EndsWith(Lower(path), <<".","c","s","v">>)

JSONLSupports(path) ==
    \/ EndsWith(Lower(path), <<".","j","s","o","n","l">>)
    \/ EndsWith(Lower(path), <<".","n","d","j","s","o","n">>)

LogSupports(path) == EndsWith(Lower(path), <<".","l","o","g">>)

\* mutant: the plain-line strategy takes every name that has a dot in it
TXTSupportsAnyDotted(path) ==
    \/ EndsWith(Lower(path), <<".","t","x","t">>)
    \/ \E i \in 1..Len(path) : path[i] = "."

TXTSupports(path) == EndsWith(Lower(path), <<".","t","x","t">>)

\* CustomA accepts the files named x.*, CustomB the .json files
CustomSupports(strategy, path) ==
    IF strategy = CustomA
    THEN Len(path) >= 2 /\ path[1] = "x" /\ path[2] = "."
    ELSE EndsWith(Lower(path), <<".","j","s","o","n">>)

\* strategy.supports(file_path)
SupportsOf(strategy, path) ==
    CASE strategy = CSVParser   -> CSVSupports(path)
      [] strategy = JSONLParser -> JSONLSupports(path)
      [] strategy = LogParser   -> LogSupports(path)
      [] strategy = TXTParser   -> TXTSupports(path)
      [] OTHER                  -> CustomSupports(strategy, path)

\* supports is a function of the strategy and the path alone: its table
SupportsTable ==
    [strategy \in {CSVParser, JSONLParser, LogParser, TXTParser} \cup Customs,
     path \in Paths |-> SupportsOf(strategy, path)]

Supports(strategy, path) == SupportsTable[strategy, path]

(***************************************************************************)
(* Exceptions                                                              *)
(***************************************************************************)
NoError == [cls |-> None, msg |-> ""]
\* ValueError(f"不支持的文件类型: {file_path}")
UnsupportedFileType == [cls |-> "ValueError", msg |-> "unsupported file type"]
\* ValueError("无法识别日志格式，请手动指定子解析器")
FormatNotRecognized == [cls |-> "ValueError", msg |-> "log format not recognized"]
\* what open() raises on file f
OpenError(f) == [cls |-> f.status, msg |-> "open"]
\* json.JSONDecodeError
MalformedRecord == [cls |-> "JSONDecodeError", msg |-> "json.loads"]
\* pandas.errors.EmptyDataError: read_csv on a file without a header line
EmptyData == [cls |-> "EmptyDataError", msg |-> "read_csv"]

(***************************************************************************)
(* FileParser                                                              *)
(***************************************************************************)
\* mutant: the last strategy that supports the path
FindLastStrategy(strats, path) ==
    LET hits == {i \in 1..Len(strats) : Supports(strats[i], path)}
    IN  IF hits = {} THEN 0 ELSE CHOOSE i \in hits : \A j \in hits : j <= i

\* mutant: the registered custom strategies are tried before the built-ins
FindCustomFirst(strats, path) ==
    LET customs == {i \in (Len(BuiltIns) + 1)..Len(strats) : Supports(strats[i], path)}
        hits == {i \in 1..Len(strats) : Supports(strats[i], path)}
    IN  IF customs # {} THEN Least(customs)
        ELSE IF hits = {} THEN 0 ELSE Least(hits)

\* _find_strategy: the index of the strategy returned, 0 for None
FindStrategy(strats, path) ==
    LET hits == {i \in 1..Len(strats) : Supports(strats[i], path)}
    IN  IF hits = {} THEN 0 ELSE Least(hits)

\* the strategies whose supports the loop of _find_strategy has called
Probed(strats, path) ==
    LET k == FindStrategy(strats, path)
    IN  IF k = 0 THEN strats ELSE SubSeq(strats, 1, k)

\* what a FileParser.parse call leaves behind: the strategies probed, the
\* one whose parse was called and its generator object, which has not run;
\* stops counts the StopIteration its caller got from it after it ended
NewSession(strategy, path, strats) ==
    [strategy |-> strategy, path |-> path, registered |-> Len(strats),
     probed |-> Probed(strats, path), delegated |-> <<strategy>>,
     pc |-> "created", pos |-> 0, handle |-> "none", opens |-> 0,
     out |-> <<>>, raised |-> NoError, detected |-> "-", parser |-> None,
     chunk |-> <<>>, stops |-> 0]

\* mutant: a path no strategy supports is handed to the last strategy
ParseCallFallback(strats, path) ==
    LET hits == {i \in 1..Len(strats) : Supports(strats[i], path)}
    IN  IF hits = {}
        THEN NewSession(strats[Len(strats)], path, strats)
        ELSE NewSession(strats[Least(hits)], path, strats)

\* FileParser.parse(file_path): raises ValueError when _find_strategy
\* returns None, else returns strategy.parse(file_path), a generator
ParseCall(strats, path) ==
    LET k == FindStrategy(strats, path)
    IN  IF k = 0
        THEN [NewSession(None, path, strats) EXCEPT
                 !.delegated = <<>>, !.pc = "unsupported",
                 !.raised = UnsupportedFileType]
        ELSE NewSession(strats[k], path, strats)

(***************************************************************************)
(* The generator bodies: one next() on a session that has not ended, run   *)
(* up to the next yield, the return or the exception                       *)
(***************************************************************************)
\* the generator yields record
Yield(s, record, pos) ==
    [s EXCEPT !.pc = "suspended", !.pos = pos, !.out = Append(@, record)]

\* the generator returns: the with block has closed the file
Return(s, pos) ==
    [s EXCEPT !.pc = "done", !.pos = pos, !.handle = "closed"]

\* an exception leaves the generator; a file the with block holds is closed
Raise(s, error) ==
    [s EXCEPT !.pc = "failed", !.raised = error,
              !.handle = IF @ = "open" THEN "closed" ELSE @]

\* open(file_path, 'r', encoding='utf-8') on a readable file
Open(s) == [s EXCEPT !.handle = "open", !.opens = @ + 1]

\* mutant: blank lines are not yielded
TXTFromSkipBlank(s, f) ==
    LET rest == {j \in (s.pos + 1)..Len(f.lines) : Strip(f.lines[j]) # ""}
    IN  IF rest = {}
        THEN Return(s, Len(f.lines))
        ELSE Yield(s, Strip(f.lines[Least(rest)]), Least(rest))

\* TXTParser.parse: for line in file: yield line.strip()
TXTFrom(s, f) ==
    IF s.pos < Len(f.lines)
    THEN Yield(s, Strip(f.lines[s.pos + 1]), s.pos + 1)
    ELSE Return(s, s.pos)

TXTNext(s, f) ==
    IF s.pc = "created"
    THEN IF Readable(f) THEN TXTFrom(Open(s), f) ELSE Raise(s, OpenError(f))
    ELSE TXTFrom(s, f)

\* json.loads(text) succeeds
JsonValid(text) == text = JsonOkLine

\* mutant: blank lines are skipped, as LogParser.parse skips them
JSONLFromSkipBlank(s, f) ==
    LET rest == {j \in (s.pos + 1)..Len(f.lines) : Strip(f.lines[j]) # ""}
    IN  IF rest = {}
        THEN Return(s, Len(f.lines))
        ELSE IF JsonValid(Strip(f.lines[Least(rest)]))
        THEN Yield(s, [value |-> Strip(f.lines[Least(rest)])], Least(rest))
        ELSE Raise([s EXCEPT !.pos = Least(rest)], MalformedRecord)

\* mutant: a line json.loads fails on is skipped and the stream goes on
JSONLFromSkip(s, f) ==
    LET rest == {j \in (s.pos + 1)..Len(f.lines) : JsonValid(Strip(f.lines[j]))}
    IN  IF rest = {}
        THEN Return(s, Len(f.lines))
        ELSE Yield(s, [value |-> Strip(f.lines[Least(rest)])], Least(rest))

\* JSONLParser.parse: for line in file: yield json.loads(line.strip())
JSONLFrom(s, f) ==
    IF s.pos < Len(f.lines)
    THEN IF JsonValid(Strip(f.lines[s.pos + 1]))
         THEN Yield(s, [value |-> Strip(f.lines[s.pos + 1])], s.pos + 1)
         ELSE Raise([s EXCEPT !.pos = s.pos + 1], MalformedRecord)
    ELSE Return(s, s.pos)

JSONLNext(s, f) ==
    IF s.pc = "created"
    THEN IF Readable(f) THEN JSONLFrom(Open(s), f) ELSE Raise(s, OpenError(f))
    ELSE JSONLFrom(s, f)

\* the lines after position pos that LogParser.parse yields a record for
RecordLines(parser, lines, pos) ==
    {j \in (pos + 1)..Len(lines) :
        /\ Strip(lines[j]) # ""
        /\ Truthy(ParseLine(parser, Strip(lines[j])))}

\* mutant: the record is tagged with the sub-parser whose can_parse accepts
\* the line, not with the detected one
TaggedByLine(parser, text) ==
    [fields |-> ParseLine(parser, text).fields,
     _parser |-> IF NginxCanParse(text) THEN Nginx ELSE Apache]

\* the record LogParser.parse yields for a line
Tagged(parser, text) ==
    [fields |-> ParseLine(parser, text).fields, _parser |-> parser]

\* mutant: the loop ends at the first non-blank line parse_line returns None
\* for
LogFromStopAtNone(s, f) ==
    LET rest == {j \in (s.pos + 1)..Len(f.lines) : Strip(f.lines[j]) # ""}
    IN  IF rest = {} \/ ~Truthy(ParseLine(s.parser, Strip(f.lines[Least(rest)])))
        THEN Return(s, Len(f.lines))
        ELSE Yield(s, Tagged(s.parser, Strip(f.lines[Least(rest)])), Least(rest))

\* LogParser.parse, the loop over the file with the detected parser
LogFrom(s, f) ==
    LET next == RecordLines(s.parser, f.lines, s.pos)
    IN  IF next = {}
        THEN Return(s, Len(f.lines))
        ELSE Yield(s, Tagged(s.parser, Strip(f.lines[Least(next)])), Least(next))

\* mutant: without a detected sub-parser the first registered one is used
LogStartFallback(s, f, subs) ==
    LET d == DetectFormatOn(subs, f, DefaultSampleSize)
        after == [s EXCEPT !.opens = IF d.opened THEN 1 ELSE 0,
                           !.detected = d.returned,
                           !.parser = IF d.returned = None /\ subs # <<>>
                                      THEN subs[1] ELSE d.returned]
    IN  IF after.parser = None
        THEN Raise(after, FormatNotRecognized)
        ELSE IF Readable(f)
        THEN LogFrom(Open(after), f)
        ELSE Raise(after, OpenError(f))

\* LogParser.parse from its first statement: detect_format, then the loop
LogStart(s, f, subs) ==
    LET d == DetectFormatOn(subs, f, DefaultSampleSize)
        after == [s EXCEPT !.opens = IF d.opened THEN 1 ELSE 0,
                           !.detected = d.returned, !.parser = d.returned]
    IN  IF d.returned = None
        THEN Raise(after, FormatNotRecognized)
        ELSE IF Readable(f)
        THEN LogFrom(Open(after), f)
        ELSE Raise(after, OpenError(f))

\* mutant: detect_format is run again at every resumption of the loop
LogNextRedetect(s, f, subs) ==
    IF s.pc = "created" THEN LogStart(s, f, subs)
    ELSE LET d == DetectFormatOn(subs, f, DefaultSampleSize)
         IN  LogFrom([s EXCEPT !.opens = IF d.opened THEN @ + 1 ELSE @,
                               !.detected = d.returned,
                               !.parser = IF d.returned = None THEN @ ELSE d.returned],
                     f)

LogNext(s, f, subs) ==
    IF s.pc = "created" THEN LogStart(s, f, subs) ELSE LogFrom(s, f)

\* the value LogParser.parse leaves in self._detected_parser
DetectedAfter(s, f, subs, old) ==
    IF s.pc = "created" /\ DetectFormatOn(subs, f, DefaultSampleSize).returned # None
    THEN DetectFormatOn(subs, f, DefaultSampleSize).returned
    ELSE old

\* row.to_dict(): the row keyed by the header's columns
RowDict(f, i) == [header |-> Strip(f.lines[1]), row |-> Strip(f.lines[i])]

\* mutant: a last chunk of fewer than ChunkRows rows is dropped
CSVFromDropShort(s, f) ==
    IF s.chunk # <<>>
    THEN Yield([s EXCEPT !.chunk = Tail(@)], RowDict(f, Head(s.chunk)), s.pos)
    ELSE IF s.pos + ChunkRows <= Len(f.lines)
    THEN Yield([s EXCEPT !.chunk = [i \in 1..(ChunkRows - 1) |-> s.pos + 1 + i]],
               RowDict(f, s.pos + 1), s.pos + ChunkRows)
    ELSE Return(s, s.pos)

\* CSVParser.parse: the rows of the current chunk, then the next chunk of at
\* most ChunkRows rows; the reader closes the file when no row is left
CSVFrom(s, f) ==
    IF s.chunk # <<>>
    THEN Yield([s EXCEPT !.chunk = Tail(@)], RowDict(f, Head(s.chunk)), s.pos)
    ELSE IF s.pos < Len(f.lines)
    THEN LET last == Min(s.pos + ChunkRows, Len(f.lines))
         IN  Yield([s EXCEPT !.chunk = [i \in 1..(last - s.pos - 1) |-> s.pos + 1 + i]],
                   RowDict(f, s.pos + 1), last)
    ELSE Return(s, s.pos)

\* pd.read_csv(file_path, encoding='utf-8', chunksize=1000) opens the file
\* and reads the header line
CSVNext(s, f) ==
    IF s.pc = "created"
    THEN IF ~Readable(f) THEN Raise(s, OpenError(f))
         ELSE IF f.lines = <<>> THEN Raise(Open(s), EmptyData)
         ELSE CSVFrom([Open(s) EXCEPT !.pos = 1], f)
    ELSE CSVFrom(s, f)

\* a custom strategy's sequence: it ends at once and opens nothing
CustomNext(s) == [s EXCEPT !.pc = "done"]

\* next(generator)
GeneratorNext(s, f, subs) ==
    CASE s.strategy = CSVParser   -> CSVNext(s, f)
      [] s.strategy = JSONLParser -> JSONLNext(s, f)
      [] s.strategy = LogParser   -> LogNext(s, f, subs)
      [] s.strategy = TXTParser   -> TXTNext(s, f)
      [] OTHER                    -> CustomNext(s)

\* no generator, or one that has returned, raised or been closed
Ended(s) == s.pc \in {"unsupported", "done", "failed", "closed"}


(***************************************************************************)
(* File systems the dispatcher is run on                                   *)
(***************************************************************************)
\* well-formed files of every kind
FsWellFormed ==
    [p \in Paths |->
        CASE p = PathCsv   -> File(<<Line(CsvHeader), Line(CsvRow1), Line(CsvRow2), Line(CsvRow3)>>)
          [] p = PathJsonl -> File(<<Line(JsonOkLine), PaddedLine(JsonOkLine)>>)
          [] p = PathLog   -> File(<<Line(CombinedLine), Line(""), Line(CommonLine),
                                     PaddedLine(MinusZoneLine), Line(CombinedLine)>>)
          [] p = PathLogUp -> File(<<Line(Http2Line), Line(Http2Line)>>)
          [] p = PathTxt   -> File(<<PaddedLine(PlainLine), Line(""), Line(PlainLine)>>)
          [] OTHER         -> File(<<Line(JsonOkLine)>>)]

\* files with malformed, blank and unrecognized content
FsMalformed ==
    [p \in Paths |->
        CASE p = PathCsv   -> File(<<>>)
          [] p = PathJsonl -> File(<<Line(JsonOkLine), Line(JsonBadLine), Line(JsonOkLine)>>)
          [] p = PathLog   -> File(<<Line(PlainLine), Line(PlainLine), Line(CombinedLine)>>)
          [] p = PathLogUp -> File(<<PaddedLine(""), Line("")>>)
          [] p = PathTxt   -> File(<<>>)
          [] OTHER         -> File(<<>>)]

\* no file exists, or none may be opened
FsMissing == [p \in Paths |-> IF p = PathJsonl THEN DeniedFile ELSE MissingFile]

\* some files exist, a blank line sits in the line-delimited JSON file
FsMixed ==
    [p \in Paths |->
        CASE p = PathCsv   -> File(<<Line(CsvHeader)>>)
          [] p = PathJsonl -> File(<<Line(JsonOkLine), Line(""), Line(JsonOkLine)>>)
          [] p = PathLog   -> MissingFile
          [] p = PathLogUp -> File(<<Line(MinusZoneLine), Line(CombinedLine), Line(PlainLine)>>)
          [] p = PathTxt   -> DeniedFile
          [] OTHER         -> MissingFile]

FileSystems == {FsWellFormed, FsMalformed, FsMissing, FsMixed}

(***************************************************************************)
(* Files detect_format is run on                                           *)
(***************************************************************************)
DetectLines ==
    {PaddedLine(""), Line(CombinedLine), Line(MinusZoneLine), Line(Http2Line),
     Line(PlainLine)}

\* the files of DefaultSampleSize lines and more: k combined lines, then j
\* lines with a negative zone, then plain lines
LongFiles ==
    {[i \in 1..n |-> IF i <= k THEN Line(CombinedLine)
                     ELSE IF i <= k + j THEN Line(MinusZoneLine)
                     ELSE Line(PlainLine)] :
        n \in {DefaultSampleSize, DefaultSampleSize + 1},
        k \in 0..DefaultSampleSize, j \in 0..DefaultSampleSize}

DetectFiles == SeqsUpTo(DetectLines, MaxShortLen) \cup LongFiles

DetectFs(lines) ==
    [p \in Paths |->
        CASE p = PathLog   -> File(lines)
          [] p = PathLogUp -> DeniedFile
          [] p = PathJsonl -> UndecodableFile(lines)
          [] OTHER         -> MissingFile]

(***************************************************************************)
(* Files the tabular strategy is run on: a header line and n data rows,    *)
(* each with its own text                                                  *)
(***************************************************************************)
CsvRowLine(i) == Line(ToString(i))

CsvFs(n) ==
    [p \in Paths |->
        IF p = PathCsv
        THEN File(<<Line(CsvHeader)>> \o [i \in 1..n |-> CsvRowLine(i)])
        ELSE MissingFile]

(***************************************************************************)
(* Paths supports is asked about: names with and without the built-in      *)
(* suffixes, in every casing of their letters                              *)
(***************************************************************************)
UpperChar(c) ==
    IF \E i \in 1..26 : LowerCase[i] = c
    THEN UpperCase[CHOOSE i \in 1..26 : LowerCase[i] = c]
    ELSE c

RECURSIVE Recasings(_)
\* the strings that differ from path in the case of letters only
Recasings(path) ==
    IF path = <<>> THEN {<<>>}
    ELSE {<<c>> \o rest : c \in {LowerChar(Head(path)), UpperChar(Head(path))},
                          rest \in Recasings(Tail(path))}

SupportStems ==
    {<<".","c","s","v">>, <<".","j","s","o","n","l">>, <<".","n","d","j","s","o","n">>,
     <<".","l","o","g">>, <<".","t","x","t">>, <<".","j","s","o","n">>,
     <<"c","s","v">>, <<".","l","o","g","s">>, <<"a",".","t","x","t">>,
     <<".","t","x","t",".","c","s","v">>}

SupportPaths == UNION {Recasings(stem) : stem \in SupportStems}

SampleSizes == {1, MaxShortLen, DefaultSampleSize}

\* a readable file, one that open() fails on and one whose read fails
DetectPaths == {PathLog, PathLogUp, PathJsonl}

(***************************************************************************)
(* Initial states                                                          *)
(***************************************************************************)
NoDetect == [called |-> FALSE, path |-> <<>>, sample_size |-> 0, subs |-> <<>>,
             returned |-> None, raised |-> None, opened |-> FALSE,
             sample |-> <<>>, fetched |-> 0, handle |-> "none"]

NoSupports == [called |-> FALSE, strategy |-> None, path |-> <<>>, result |-> FALSE]

\* FileParser(): the built-in strategies, a LogParser() without sub-parsers
Init ==
    /\ fs \in FileSystems
    /\ strategies = BuiltIns
    /\ sub_parsers = <<>>
    /\ detected_parser = None
    /\ sessions = <<>>
    /\ lastDetect = NoDetect
    /\ lastSupports = NoSupports

\* LogParser(sub_parsers) on its own, before any detect_format call
InitDetect ==
    /\ fs \in {DetectFs(lines) : lines \in DetectFiles}
    /\ strategies = BuiltIns
    /\ sub_parsers \in SeqsUpTo(Matchers, MaxSubParsers)
    /\ detected_parser = None
    /\ sessions = <<>>
    /\ lastDetect = NoDetect
    /\ lastSupports = NoSupports

\* FileParser() next to a tabular file of 0..MaxRows data rows
InitCsv ==
    /\ fs \in {CsvFs(n) : n \in 0..MaxRows}
    /\ strategies = BuiltIns
    /\ sub_parsers = <<>>
    /\ detected_parser = None
    /\ sessions = <<>>
    /\ lastDetect = NoDetect
    /\ lastSupports = NoSupports

\* the paths sessions are started over again on
RestartPaths == {PathCsv, PathJsonl, PathLog, PathTxt}

\* FileParser() whose LogParser has no sub-parsers, or Nginx and Apache
InitRestart ==
    /\ fs \in FileSystems
    /\ strategies = BuiltIns
    /\ sub_parsers \in {<<>>, <<Nginx, Apache>>}
    /\ detected_parser = None
    /\ sessions = <<>>
    /\ lastDetect = NoDetect
    /\ lastSupports = NoSupports

\* FileParser() and the path its strategies' supports will be asked about
InitSupports ==
    /\ fs = FsWellFormed
    /\ strategies = BuiltIns
    /\ sub_parsers = <<>>
    /\ detected_parser = None
    /\ sessions = <<>>
    /\ lastDetect = NoDetect
    /\ lastSupports \in {[NoSupports EXCEPT !.path = path] : path \in SupportPaths}

\* the log files detection and parse sessions are mixed on
HistoryPaths == {PathLog, PathLogUp}

\* FileParser() whose LogParser holds some list of sub-parsers
InitHistory ==
    /\ fs \in FileSystems
    /\ strategies = BuiltIns
    /\ sub_parsers \in SeqsUpTo(Matchers, MaxSubParsers)
    /\ detected_parser = None
    /\ sessions = <<>>
    /\ lastDetect = NoDetect
    /\ lastSupports = NoSupports

(***************************************************************************)
(* Actions                                                                 *)
(***************************************************************************)
\* mutant: the new strategy is put in front of the list
RegisterStrategyFront(strategy) ==
    /\ Len(strategies) < Len(BuiltIns) + MaxCustom
    /\ strategies' = <<strategy>> \o strategies
    /\ UNCHANGED <<fs, sub_parsers, detected_parser, sessions, lastDetect, lastSupports>>

\* FileParser.register_strategy(strategy)
RegisterStrategy(strategy) ==
    /\ Len(strategies) < Len(BuiltIns) + MaxCustom
    /\ strategies' = Append(strategies, strategy)
    /\ UNCHANGED <<fs, sub_parsers, detected_parser, sessions, lastDetect, lastSupports>>

\* LogParser.register_sub_parser(sub_parser)
RegisterSubParser(m) ==
    /\ Len(sub_parsers) < MaxSubParsers
    /\ sub_parsers' = Append(sub_parsers, m)
    /\ UNCHANGED <<fs, strategies, detected_parser, sessions, lastDetect, lastSupports>>

\* mutant: parse runs the strategy up to its first record before it returns
ParseEager(path) ==
    /\ Len(sessions) < MaxSessions
    /\ sessions' = Append(sessions,
          IF ParseCall(strategies, path).pc = "unsupported"
          THEN ParseCall(strategies, path)
          ELSE GeneratorNext(ParseCall(strategies, path), fs[path], sub_parsers))
    /\ UNCHANGED <<fs, strategies, sub_parsers, detected_parser, lastDetect, lastSupports>>

\* FileParser.parse(file_path)
Parse(path) ==
    /\ Len(sessions) < MaxSessions
    /\ sessions' = Append(sessions, ParseCall(strategies, path))
    /\ UNCHANGED <<fs, strategies, sub_parsers, detected_parser, lastDetect, lastSupports>>

\* mutant: the loop of LogParser.parse reads self._detected_parser, which
\* the sessions of one LogParser share, instead of its local
PullShared(i) ==
    /\ ~Ended(sessions[i])
    /\ sessions' = [sessions EXCEPT ![i] =
          GeneratorNext([sessions[i] EXCEPT !.parser =
                            IF sessions[i].strategy = LogParser
                               /\ sessions[i].pc # "created"
                               /\ detected_parser # None
                            THEN detected_parser ELSE @],
                        fs[sessions[i].path], sub_parsers)]
    /\ detected_parser' =
          IF sessions[i].strategy = LogParser
          THEN DetectedAfter(sessions[i], fs[sessions[i].path], sub_parsers, detected_parser)
          ELSE detected_parser
    /\ UNCHANGED <<fs, strategies, sub_parsers, lastDetect, lastSupports>>

\* the caller pulls the next record of session i
Pull(i) ==
    /\ ~Ended(sessions[i])
    /\ sessions' = [sessions EXCEPT ![i] = GeneratorNext(@, fs[@.path], sub_parsers)]
    /\ detected_parser' =
          IF sessions[i].strategy = LogParser
          THEN DetectedAfter(sessions[i], fs[sessions[i].path], sub_parsers, detected_parser)
          ELSE detected_parser
    /\ UNCHANGED <<fs, strategies, sub_parsers, lastDetect, lastSupports>>

\* mutant: a generator that has ended runs its body again from the start
PullEndedRestart(i) ==
    /\ sessions[i].pc \in {"done", "failed", "closed"}
    /\ sessions[i].stops < MaxStops
    /\ sessions' = [sessions EXCEPT ![i] =
          GeneratorNext([sessions[i] EXCEPT !.pc = "created", !.pos = 0,
                                            !.chunk = <<>>, !.stops = @ + 1],
                        fs[sessions[i].path], sub_parsers)]
    /\ UNCHANGED <<fs, strategies, sub_parsers, detected_parser, lastDetect, lastSupports>>

\* next() on a generator that has returned, raised or been closed: the
\* caller gets StopIteration and the generator stays as it ended
PullEnded(i) ==
    /\ sessions[i].pc \in {"done", "failed", "closed"}
    /\ sessions[i].stops < MaxStops
    /\ sessions' = [sessions EXCEPT ![i].stops = @ + 1]
    /\ UNCHANGED <<fs, strategies, sub_parsers, detected_parser, lastDetect, lastSupports>>

\* generator.close(): GeneratorExit at the yield leaves the with block,
\* which closes the file; pandas' reader is not closed by the generator, and
\* its file is closed only when the reader is collected
Close(i) ==
    /\ ~Ended(sessions[i])
    /\ \E h \in {"open", "closed"} :
          sessions' = [sessions EXCEPT ![i] =
              [@ EXCEPT !.pc = "closed",
                        !.handle = IF @ # "open" THEN @
                                   ELSE IF sessions[i].strategy = CSVParser THEN h
                                   ELSE "closed"]]
    /\ UNCHANGED <<fs, strategies, sub_parsers, detected_parser, lastDetect, lastSupports>>

\* strategy.supports(file_path) of a built-in strategy, called directly on
\* the path at hand
SupportsCall(strategy) ==
    /\ lastSupports' = [called |-> TRUE, strategy |-> strategy,
                        path |-> lastSupports.path,
                        result |-> SupportsOf(strategy, lastSupports.path)]
    /\ UNCHANGED <<fs, strategies, sub_parsers, detected_parser, sessions, lastDetect>>

\* mutant: detect_format answers with self._detected_parser once a parse
\* session has set it
DetectFormatCached(path, sample_size) ==
    LET d == DetectFormatOn(sub_parsers, fs[path], sample_size)
    IN  /\ lastDetect' = [called |-> TRUE, path |-> path, sample_size |-> sample_size,
                          subs |-> sub_parsers,
                          returned |-> IF detected_parser # None
                                       THEN detected_parser ELSE d.returned,
                          raised |-> d.raised,
                          opened |-> d.opened, sample |-> d.sample,
                          fetched |-> d.fetched, handle |-> d.handle]
        /\ UNCHANGED <<fs, strategies, sub_parsers, detected_parser, sessions, lastSupports>>

\* LogParser.detect_format(file_path, sample_size) called directly
DetectFormat(path, sample_size) ==
    LET d == DetectFormatOn(sub_parsers, fs[path], sample_size)
    IN  /\ lastDetect' = [called |-> TRUE, path |-> path, sample_size |-> sample_size,
                          subs |-> sub_parsers,
                          returned |-> d.returned, raised |-> d.raised,
                          opened |-> d.opened, sample |-> d.sample,
                          fetched |-> d.fetched, handle |-> d.handle]
        /\ UNCHANGED <<fs, strategies, sub_parsers, detected_parser, sessions, lastSupports>>

Next ==
    \/ \E strategy \in Customs : RegisterStrategy(strategy)
    \/ \E m \in Matchers : RegisterSubParser(m)
    \/ \E path \in Paths : Parse(path)
    \/ \E i \in 1..Len(sessions) : Pull(i)
    \/ \E i \in 1..Len(sessions) : Close(i)

Spec == Init /\ [][Next]_vars

\* sub-parsers are registered first, then detect_format is called, any number
\* of times
NextDetect ==
    \/ \E m \in Matchers : ~lastDetect.called /\ RegisterSubParser(m)
    \/ \E path \in DetectPaths, sample_size \in SampleSizes :
          DetectFormat(path, sample_size)

SpecDetect == InitDetect /\ [][NextDetect]_vars

NextCsv ==
    \/ Parse(PathCsv)
    \/ \E i \in 1..Len(sessions) : Pull(i)
    \/ \E i \in 1..Len(sessions) : Close(i)

SpecCsv == InitCsv /\ [][NextCsv]_vars

NextRestart ==
    \/ \E path \in RestartPaths : Parse(path)
    \/ \E i \in 1..Len(sessions) : Pull(i)
    \/ \E i \in 1..Len(sessions) : PullEnded(i)
    \/ \E i \in 1..Len(sessions) : Close(i)

SpecRestart == InitRestart /\ [][NextRestart]_vars

NextSupports ==
    \/ \E strategy \in Customs : RegisterStrategy(strategy)
    \/ \E i \in 1..Len(BuiltIns) : SupportsCall(BuiltIns[i])

SpecSupports == InitSupports /\ [][NextSupports]_vars

NextHistory ==
    \/ \E path \in HistoryPaths : Parse(path)
    \/ \E i \in 1..Len(sessions) : Pull(i)
    \/ \E path \in HistoryPaths, sample_size \in {1, DefaultSampleSize} :
          DetectFormat(path, sample_size)

SpecHistory == InitHistory /\ [][NextHistory]_vars


(***************************************************************************)
(* Properties of detect_format, checked under SpecDetect                   *)
(***************************************************************************)
\* a direct detect_format call has returned on a file that could be read,
\* with at least one sub-parser registered at the call
DetectedReadable ==
    /\ lastDetect.called
    /\ Readable(fs[lastDetect.path])
    /\ lastDetect.subs # <<>>

\* the can_parse count, over the call's sample, of the i-th sub-parser
CountOf(i) ==
    Cardinality({k \in 1..Len(lastDetect.sample) :
                    CanParse(lastDetect.subs[i], lastDetect.sample[k])})

\* the i-th sub-parser matches at least 70% of the sampled lines
AtThreshold(i) == 10 * CountOf(i) >= 7 * Len(lastDetect.sample)

Registered == 1..Len(lastDetect.subs)

\* C3, as stated: detect_format returns the sub-parser with the highest
\* can_parse count over the sample if that count is at least 70% of the
\* sampled lines (so a later-registered sub-parser with a higher count wins
\* over an earlier one that also reaches the threshold), and None otherwise.
C3_HighestCountReturned ==
    DetectedReadable =>
        IF \E i \in Registered : AtThreshold(i)
        THEN \E i \in Registered :
                /\ lastDetect.returned = lastDetect.subs[i]
                /\ \A j \in Registered : CountOf(j) <= CountOf(i)
        ELSE lastDetect.returned = None

\* C3, amended: detect_format returns the earliest-registered sub-parser
\* whose can_parse count is at least 70% of the sampled lines, whatever the
\* counts of the sub-parsers registered after it, and None if there is none.
C3_FirstAtThresholdReturned ==
    DetectedReadable =>
        IF \E i \in Registered : AtThreshold(i)
        THEN \E i \in Registered :
                /\ lastDetect.returned = lastDetect.subs[i]
                /\ AtThreshold(i)
                /\ \A j \in 1..(i - 1) : ~AtThreshold(j)
        ELSE lastDetect.returned = None

\* C3 witness: an earlier sub-parser reaches the threshold with a lower count
\* than a later one, and the earlier one is returned
C3_Witness ==
    /\ DetectedReadable
    /\ \E i, j \in Registered :
          /\ i < j
          /\ AtThreshold(i)
          /\ CountOf(i) < CountOf(j)
          /\ \A k \in 1..(i - 1) : ~AtThreshold(k)
          /\ lastDetect.returned = lastDetect.subs[i]
          /\ lastDetect.returned # lastDetect.subs[j]

\* C4: when several registered sub-parsers reach the 70% threshold on the
\* sample, detect_format returns the earliest-registered of them.
C4_EarliestOfSeveral ==
    (DetectedReadable /\ Cardinality({i \in Registered : AtThreshold(i)}) >= 2) =>
        lastDetect.returned =
            lastDetect.subs[Least({i \in Registered : AtThreshold(i)})]

\* C4 witness: two different sub-parsers reach the threshold on a non-empty
\* sample and the first of them is returned
C4_Witness ==
    /\ DetectedReadable
    /\ Len(lastDetect.sample) >= 1
    /\ Len(lastDetect.subs) >= 2
    /\ lastDetect.subs[1] # lastDetect.subs[2]
    /\ AtThreshold(1) /\ AtThreshold(2)
    /\ lastDetect.returned = lastDetect.subs[1]

\* C5: for a sample of n >= 1 lines, a sub-parser is returned only if its
\* count c has 10c >= 7n (exactly 70% included); some sub-parser is returned
\* whenever one has 10c >= 7n, and None is returned when none has.
C5_ThresholdBoundary ==
    (DetectedReadable /\ Len(lastDetect.sample) >= 1) =>
        /\ lastDetect.returned # None =>
              \E i \in Registered :
                 lastDetect.returned = lastDetect.subs[i] /\ AtThreshold(i)
        /\ (\E i \in Registered : AtThreshold(i)) => lastDetect.returned # None
        /\ (\A i \in Registered : ~AtThreshold(i)) => lastDetect.returned = None

\* C5 witness: a sub-parser matching exactly 70% of a ten-line sample is
\* returned
C5_Witness ==
    /\ DetectedReadable
    /\ Len(lastDetect.sample) = 10
    /\ \E i \in Registered :
          /\ CountOf(i) = 7
          /\ lastDetect.returned = lastDetect.subs[i]

\* the stripped non-empty lines of a sequence of physical lines
NonEmptyTexts(lines) ==
    SelectSeq([i \in 1..Len(lines) |-> Strip(lines[i])], IsNonEmpty)

\* C6, as stated: the sample is exactly the first min(sample_size, N)
\* non-empty lines of the file, N being its number of non-empty lines.
C6_SampleIsFirstNonEmptyLines ==
    DetectedReadable =>
        LET texts == NonEmptyTexts(fs[lastDetect.path].lines)
        IN  lastDetect.sample =
                SubSeq(texts, 1, Min(lastDetect.sample_size, Len(texts)))

\* C7, as stated: on a file without a non-empty line among the sampled lines
\* detect_format returns None, whatever sub-parsers are registered.
C7_NoLinesNoMatch ==
    (/\ lastDetect.called
     /\ Readable(fs[lastDetect.path])
     /\ \A i \in 1..Min(lastDetect.sample_size, Len(fs[lastDetect.path].lines)) :
           Strip(fs[lastDetect.path].lines[i]) = "")
        => lastDetect.returned = None

\* C8, as stated: on a file that cannot be opened, what reaches the caller
\* differs from the None returned for a readable file no sub-parser fits.
C8_UnreadableDistinctFromNoMatch ==
    (lastDetect.called /\ lastDetect.subs # <<>> /\ ~Readable(fs[lastDetect.path])) =>
        <<lastDetect.returned, lastDetect.raised>> # <<None, None>>


(***************************************************************************)
(* Properties of the dispatcher and of the parse sessions, checked under   *)
(* Spec                                                                    *)
(***************************************************************************)
Calls == 1..Len(sessions)

\* the strategies registered when call i was made that support its path, by
\* position
SupportingAt(i) ==
    {k \in 1..sessions[i].registered : Supports(strategies[k], sessions[i].path)}

\* C1: FileParser.parse delegates to exactly one strategy, the first in
\* registration order whose supports(path) is true; the generator returned
\* is that strategy's, and no later strategy that also supports the path is
\* invoked.
C1_FirstSupportingStrategyOnly ==
    \A i \in Calls :
        SupportingAt(i) # {} =>
            /\ sessions[i].delegated = <<strategies[Least(SupportingAt(i))]>>
            /\ sessions[i].strategy = strategies[Least(SupportingAt(i))]
            /\ sessions[i].pc # "unsupported"

\* C1 witness: a strategy was called for a path that a strategy registered
\* after it, and before the call, supports as well
C1_Witness ==
    \E i \in Calls :
        \E j, k \in SupportingAt(i) :
            /\ j < k
            /\ strategies[j] # strategies[k]
            /\ sessions[i].delegated = <<strategies[j]>>

\* C2: when no registered strategy supports the path, FileParser.parse fails
\* with the unsupported-file-type error, no strategy's parse is invoked, no
\* file is opened, and the strategy list and the earlier sessions are left
\* as they were.
C2_UnsupportedPathFails ==
    [][(/\ Len(sessions') > Len(sessions)
        /\ \A k \in 1..Len(strategies) :
              ~Supports(strategies[k], sessions'[Len(sessions')].path))
       => /\ sessions'[Len(sessions')].pc = "unsupported"
          /\ sessions'[Len(sessions')].raised = UnsupportedFileType
          /\ sessions'[Len(sessions')].delegated = <<>>
          /\ sessions'[Len(sessions')].opens = 0
          /\ sessions'[Len(sessions')].handle = "none"
          /\ SubSeq(sessions', 1, Len(sessions)) = sessions
          /\ strategies' = strategies]_vars

\* C2 witness: a call failed while an earlier session had its file open
C2_Witness ==
    \E i, j \in Calls :
        /\ sessions[i].pc = "unsupported"
        /\ sessions[i].raised = UnsupportedFileType
        /\ sessions[i].probed = strategies
        /\ j < i
        /\ sessions[j].handle = "open"

IOErrorClasses == {Missing, Denied}

BuiltInSet == {CSVParser, JSONLParser, LogParser, TXTParser}

\* C9, as stated: for each built-in strategy a session pulled on a missing
\* or unreadable file ends in an I/O failure, which is neither the
\* format-not-recognized nor the malformed-record error.
C9_UnreadableFileIsIOFailure ==
    \A i \in 1..Len(sessions) :
        (/\ sessions[i].strategy \in BuiltInSet
         /\ ~Readable(fs[sessions[i].path])
         /\ sessions[i].pc \in {"suspended", "done", "failed"})
        => /\ sessions[i].pc = "failed"
           /\ sessions[i].raised.cls \in IOErrorClasses

\* C10: when detection returns no match, a LogParser session fails with the
\* format-not-recognized error before it yields any record and applies no
\* sub-parser; that error is not the dispatcher's unsupported-file-type
\* error.
C10_NoMatchFailsWithoutFallback ==
    \A i \in 1..Len(sessions) :
        (sessions[i].strategy = LogParser /\ sessions[i].detected = None)
        => /\ sessions[i].pc = "failed"
           /\ sessions[i].raised = FormatNotRecognized
           /\ sessions[i].raised # UnsupportedFileType
           /\ sessions[i].out = <<>>
           /\ sessions[i].parser = None
           /\ sessions[i].handle # "open"

\* C10 witness: sub-parsers are registered, the file is readable, detection
\* found no match and the session failed without a record
C10_Witness ==
    \E i \in 1..Len(sessions) :
        /\ sessions[i].strategy = LogParser
        /\ sessions[i].detected = None
        /\ sessions[i].opens = 1
        /\ sessions[i].pc = "failed"
        /\ sessions[i].raised = FormatNotRecognized
        /\ sessions[i].out = <<>>

(***************************************************************************)
(* Properties of the records the built-in strategies yield, checked under  *)
(* Spec                                                                    *)
(***************************************************************************)
\* the file session i reads
FileOf(i) == fs[sessions[i].path]

LogSessions == {i \in Calls : sessions[i].strategy = LogParser}

\* C11: every record a LogParser session yields carries the field _parser,
\* whose value is the class name of the sub-parser detection selected for
\* that session, never that of another registered sub-parser.
C11_RecordsTaggedWithDetected ==
    \A i \in LogSessions :
        \A k \in 1..Len(sessions[i].out) :
            /\ "_parser" \in DOMAIN sessions[i].out[k]
            /\ sessions[i].out[k]._parser = sessions[i].detected
            /\ sessions[i].detected \in Matchers

\* C11 witness: a session that detected Apache, with Nginx registered too,
\* yielded a record for a line Nginx's can_parse accepts as well
C11_Witness ==
    \E i \in LogSessions :
        /\ Len(sub_parsers) = 2
        /\ sub_parsers[1] # sub_parsers[2]
        /\ sessions[i].detected = Apache
        /\ Len(sessions[i].out) >= 1
        /\ NginxCanParse(sessions[i].out[1].fields)
        /\ sessions[i].out[1]._parser = Apache

RECURSIVE ExtractedUpTo(_, _, _)
\* the group dictionaries parse_line of sub-parser m gives for the non-blank
\* lines among the first n lines, in file order, without the lines it
\* returns None for
ExtractedUpTo(m, lines, n) ==
    IF n = 0 THEN <<>>
    ELSE IF lines[n].text # "" /\ ParseLine(m, lines[n].text).fields # None
    THEN Append(ExtractedUpTo(m, lines, n - 1), ParseLine(m, lines[n].text).fields)
    ELSE ExtractedUpTo(m, lines, n - 1)

\* C12: after a successful detection the records of a LogParser session are,
\* in file order, the extraction results of the non-blank lines for which
\* the selected sub-parser's parse_line returns a record; blank lines and
\* lines without an extraction neither end the stream nor raise, and the
\* session runs to the end of the file.
C12_LogRecordsAreExtractions ==
    \A i \in LogSessions :
        sessions[i].detected \in Matchers =>
            /\ sessions[i].pc # "failed"
            /\ [k \in 1..Len(sessions[i].out) |-> sessions[i].out[k].fields]
                  = ExtractedUpTo(sessions[i].detected, FileOf(i).lines, sessions[i].pos)
            /\ sessions[i].pc = "done" =>
                  /\ sessions[i].pos = Len(FileOf(i).lines)
                  /\ Len(sessions[i].out) =
                        Len(ExtractedUpTo(sessions[i].detected, FileOf(i).lines,
                                          Len(FileOf(i).lines)))

\* C12 witness: a session ran to the end of a file that has a blank line and
\* a line without an extraction before its last record
C12_Witness ==
    \E i \in LogSessions :
        /\ sessions[i].pc = "done"
        /\ Len(sessions[i].out) >= 2
        /\ \E j, k \in 1..(Len(FileOf(i).lines) - 1) :
              /\ FileOf(i).lines[j].text = ""
              /\ FileOf(i).lines[k].text # ""
              /\ ParseLine(sessions[i].detected, FileOf(i).lines[k].text).fields = None
        /\ sessions[i].out[Len(sessions[i].out)].fields
              = FileOf(i).lines[Len(FileOf(i).lines)].text

JSONLSessions == {i \in Calls : sessions[i].strategy = JSONLParser}

\* the number of the first line json.loads fails on, one past the end when
\* there is none
FirstMalformed(lines) ==
    Least({k \in 1..Len(lines) : lines[k].text # JsonOkLine} \cup {Len(lines) + 1})

\* C13: when line k is the first malformed line of a line-delimited JSON
\* file, a JSONLParser session yields the records of lines 1..k-1 in order,
\* then fails with the malformed-record error, and yields no record of a
\* later line; no malformed line is skipped.
C13_StopsAtFirstMalformedLine ==
    \A i \in JSONLSessions :
        Readable(FileOf(i)) =>
            /\ Len(sessions[i].out) <= FirstMalformed(FileOf(i).lines) - 1
            /\ \A k \in 1..Len(sessions[i].out) :
                  sessions[i].out[k] = [value |-> FileOf(i).lines[k].text]
            /\ sessions[i].pc = "failed" =>
                  /\ sessions[i].raised = MalformedRecord
                  /\ Len(sessions[i].out) = FirstMalformed(FileOf(i).lines) - 1
                  /\ FirstMalformed(FileOf(i).lines) <= Len(FileOf(i).lines)
            /\ sessions[i].pc = "done" =>
                  /\ FirstMalformed(FileOf(i).lines) = Len(FileOf(i).lines) + 1
                  /\ Len(sessions[i].out) = Len(FileOf(i).lines)

\* C13 witness: a session yielded a record, then failed on a malformed line
\* that a well-formed line follows
C13_Witness ==
    \E i \in JSONLSessions :
        /\ sessions[i].pc = "failed"
        /\ sessions[i].raised = MalformedRecord
        /\ Len(sessions[i].out) >= 1
        /\ \E k \in (Len(sessions[i].out) + 2)..Len(FileOf(i).lines) :
              FileOf(i).lines[k].text = JsonOkLine

CSVSessions == {i \in Calls : sessions[i].strategy = CSVParser}

TXTSessions == {i \in Calls : sessions[i].strategy = TXTParser}

\* C15: a TXTParser session yields one record per line of the file, blank
\* lines included, each the trimmed text of its line, in line order and
\* without removing duplicates.
C15_OneRecordPerLine ==
    \A i \in TXTSessions :
        Readable(FileOf(i)) =>
            /\ sessions[i].pc # "failed"
            /\ Len(sessions[i].out) <= Len(FileOf(i).lines)
            /\ \A k \in 1..Len(sessions[i].out) :
                  sessions[i].out[k] = FileOf(i).lines[k].text
            /\ sessions[i].pc = "done" =>
                  Len(sessions[i].out) = Len(FileOf(i).lines)

\* C15 witness: a finished session yielded a blank record, the same text
\* twice, and the trimmed text of a line with surrounding blanks
C15_Witness ==
    \E i \in TXTSessions :
        /\ sessions[i].pc = "done"
        /\ \E k \in 1..Len(sessions[i].out) : sessions[i].out[k] = ""
        /\ \E j, k \in 1..Len(sessions[i].out) :
              /\ j < k
              /\ sessions[i].out[j] # ""
              /\ sessions[i].out[j] = sessions[i].out[k]
        /\ \E k \in 1..Len(sessions[i].out) : FileOf(i).lines[k].pad

\* C16, as stated: for every built-in strategy, once a session has ended
\* (exhausted, closed early by the caller, or failed) no file handle the
\* session opened is still open.
C16_NoHandleOpenAfterEnd ==
    \A i \in Calls :
        (sessions[i].strategy \in BuiltInSet /\ Ended(sessions[i]))
        => sessions[i].handle # "open"

BuiltInSupporting(i) ==
    {k \in 1..4 : Supports(strategies[k], sessions[i].path)}

\* the custom strategies registered before call i that support its path
CustomSupporting(i) ==
    {k \in 5..sessions[i].registered : Supports(strategies[k], sessions[i].path)}

\* C18, as stated: once a custom strategy whose supports accepts some of the
\* paths a built-in strategy supports is registered, FileParser.parse on
\* such a path delegates to the custom strategy.
C18_CustomIntercepts ==
    \A i \in Calls :
        (BuiltInSupporting(i) # {} /\ CustomSupporting(i) # {}) =>
            sessions[i].delegated = <<strategies[Least(CustomSupporting(i))]>>

\* C18, amended: a registered custom strategy never intercepts a path that
\* a built-in strategy supports, however specific its supports predicate:
\* parse delegates to the built-in; the custom strategy is delegated to for
\* the paths it supports that no built-in supports.
C18_BuiltInKeepsItsPaths ==
    \A i \in Calls :
        /\ BuiltInSupporting(i) # {} =>
              /\ sessions[i].delegated = <<strategies[Least(BuiltInSupporting(i))]>>
              /\ sessions[i].strategy \in BuiltInSet
        /\ (BuiltInSupporting(i) = {} /\ CustomSupporting(i) # {}) =>
              sessions[i].delegated = <<strategies[Least(CustomSupporting(i))]>>

\* C18 witness: with a custom strategy registered that accepts x.csv, parse
\* of x.csv went to CSVParser, and parse of a path no built-in supports went
\* to the custom strategy
C18_Witness ==
    \E i, j \in Calls :
        /\ sessions[i].path = PathCsv
        /\ CustomSupporting(i) # {}
        /\ sessions[i].delegated = <<CSVParser>>
        /\ BuiltInSupporting(j) = {}
        /\ CustomSupporting(j) # {}
        /\ sessions[j].delegated = <<strategies[5]>>

(***************************************************************************)
(* Properties of sessions that run side by side, checked under Spec        *)
(***************************************************************************)
\* C19: a LogParser session chooses its sub-parser by one detection when it
\* starts and applies it to every line: once the session has started, no
\* step (a pull of this or of another session, the start of another
\* session, register_sub_parser) changes its sub-parser or makes it open
\* the file again for a detection, and every record it yields is made by
\* that sub-parser.
C19_MatcherFixedForSession ==
    [][\A i \in 1..Len(sessions) :
          sessions[i].strategy = LogParser =>
             /\ sessions[i].pc # "created" =>
                   /\ sessions'[i].parser = sessions[i].parser
                   /\ sessions'[i].detected = sessions[i].detected
                   /\ sessions'[i].opens = sessions[i].opens
             /\ sessions[i].pc = "created" => sessions'[i].opens <= 2
             /\ Len(sessions'[i].out) > Len(sessions[i].out) =>
                   sessions'[i].out[Len(sessions'[i].out)]._parser = sessions'[i].parser]_vars

\* C19 witness: a session kept Apache to its end although Nginx was
\* registered and another session detected Nginx while it was being pulled
C19_Witness ==
    \E i, j \in LogSessions :
        /\ i # j
        /\ sessions[i].pc = "done"
        /\ sessions[i].parser = Apache
        /\ Len(sessions[i].out) >= 2
        /\ sessions[j].parser = Nginx
        /\ Len(sessions[j].out) >= 1
        /\ detected_parser = Nginx

RECURSIVE RunAlone(_, _, _, _)
\* the session a caller gets by n pulls on a generator nothing else runs
\* next to
RunAlone(s, f, subs, n) ==
    IF n = 0 \/ Ended(s) THEN s
    ELSE RunAlone(GeneratorNext(s, f, subs), f, subs, n - 1)

\* the pulls made on a session: one per record, and the one that ended it
PullsOf(s) ==
    IF s.pc \in {"done", "failed"} THEN Len(s.out) + 1 ELSE Len(s.out)

\* the same records, the same provenance tags (part of the records) and the
\* same outcome; a close is the caller's doing
SameOutcome(s, alone) ==
    /\ s.out = alone.out
    /\ s.raised = alone.raised
    /\ s.pc = "closed" \/ s.pc = alone.pc

\* C20: under every interleaving of the callers' pulls, each session of a
\* dispatcher yields the records, with the tags and the outcome, that the
\* same call yields when it runs alone with the sub-parsers registered when
\* it started.
C20_InterleavingIndependent ==
    \A i \in Calls :
        \E n \in 0..Len(sub_parsers) :
            SameOutcome(sessions[i],
                        RunAlone(ParseCall(SubSeq(strategies, 1, sessions[i].registered),
                                           sessions[i].path),
                                 FileOf(i), SubSeq(sub_parsers, 1, n),
                                 PullsOf(sessions[i])))

\* C20 witness: two sessions over different files, with different detected
\* sub-parsers, have both yielded records and neither has ended
C20_Witness ==
    \E i, j \in LogSessions :
        /\ sessions[i].path # sessions[j].path
        /\ sessions[i].pc = "suspended"
        /\ sessions[j].pc = "suspended"
        /\ Len(sessions[i].out) >= 2
        /\ Len(sessions[j].out) >= 1
        /\ sessions[i].detected = Apache
        /\ sessions[j].detected = Nginx

(***************************************************************************)
(* Properties of the state the dispatcher and its LogParser keep, and of   *)
(* the handles a session opens, checked under Spec                         *)
(***************************************************************************)
\* C21, as stated: the dispatcher and its LogParser keep no per-file state:
\* a step of a parse session (a pull or a close) leaves every field of the
\* FileParser and of the LogParser, the last-detected sub-parser included,
\* as it was before the session.
C21_NoStateKeptBySession ==
    [][sessions' # sessions =>
          /\ strategies' = strategies
          /\ sub_parsers' = sub_parsers
          /\ detected_parser' = detected_parser]_vars

\* C22, as stated: every session of a built-in strategy that has read its
\* file has opened exactly one file handle over its lifetime.
C22_OneHandlePerSession ==
    \A i \in Calls :
        (sessions[i].strategy \in BuiltInSet /\ sessions[i].pos > 0)
        => sessions[i].opens = 1

(***************************************************************************)
(* Properties of sessions started over again, checked under SpecRestart    *)
(***************************************************************************)
\* the records of a are the first records of b
IsPrefix(a, b) == Len(a) <= Len(b) /\ a = SubSeq(b, 1, Len(a))

\* C23: a session is finite and single-pass: once exhausted, closed or
\* failed it yields nothing more, whatever is pulled from it; a fresh parse
\* call on the same file starts at the first record and yields the same
\* sequence, however far an earlier session on that file was pulled.
C23_SinglePassAndRestartFromStart ==
    [][/\ \A i \in 1..Len(sessions) :
             Ended(sessions[i]) =>
                /\ sessions'[i].out = sessions[i].out
                /\ sessions'[i].pc = sessions[i].pc
                /\ sessions'[i].pos = sessions[i].pos
                /\ sessions'[i].opens = sessions[i].opens
       /\ \A i, j \in 1..Len(sessions') :
             (/\ i < j
              /\ sessions'[i].path = sessions'[j].path
              /\ sessions'[i].strategy = sessions'[j].strategy) =>
                /\ \/ IsPrefix(sessions'[i].out, sessions'[j].out)
                   \/ IsPrefix(sessions'[j].out, sessions'[i].out)
                /\ (/\ sessions'[i].pc \in {"done", "failed"}
                    /\ sessions'[j].pc \in {"done", "failed"}) =>
                      /\ sessions'[i].out = sessions'[j].out
                      /\ sessions'[i].raised = sessions'[j].raised
                      /\ sessions'[i].pc = sessions'[j].pc]_vars

\* C23 witness: an earlier session on a file stopped after its first
\* record; a later one on the same file ran to its end, yielded more, and
\* was pulled once more after that
C23_Witness ==
    \E i, j \in Calls :
        /\ i < j
        /\ sessions[i].path = sessions[j].path
        /\ sessions[i].pc = "closed"
        /\ Len(sessions[i].out) = 1
        /\ sessions[j].pc = "done"
        /\ Len(sessions[j].out) >= 2
        /\ sessions[j].out[1] = sessions[i].out[1]
        /\ sessions[j].stops >= 1

(***************************************************************************)
(* Properties of the supports predicates, checked under SpecSupports       *)
(***************************************************************************)
\* the suffixes the built-in strategies stand for
SuffixesOf(strategy) ==
    CASE strategy = "CSVParser"   -> {<<".","c","s","v">>}
      [] strategy = "JSONLParser" -> {<<".","j","s","o","n","l">>,
                                      <<".","n","d","j","s","o","n">>}
      [] strategy = "LogParser"   -> {<<".","l","o","g">>}
      [] strategy = "TXTParser"   -> {<<".","t","x","t">>}

\* the last characters of path are those of suffix, case apart
HasSuffixAnyCase(path, suffix) ==
    /\ Len(path) >= Len(suffix)
    /\ \A k \in 1..Len(suffix) :
          path[Len(path) - Len(suffix) + k] \in {suffix[k], UpperChar(suffix[k])}

\* C24: for each built-in strategy supports(path) is a pure function of the
\* path's suffix compared without regard to case (.csv; .jsonl or .ndjson;
\* .log; .txt): it answers alike for a path and every re-casing of it, opens
\* no file and changes no state of the strategy or the dispatcher.
C24_SupportsIsPureSuffixTest ==
    [][lastSupports' # lastSupports =>
          /\ lastSupports'.result =
                (\E suffix \in SuffixesOf(lastSupports'.strategy) :
                    HasSuffixAnyCase(lastSupports'.path, suffix))
          /\ \A q \in Recasings(lastSupports'.path) :
                SupportsOf(lastSupports'.strategy, q) = lastSupports'.result
          /\ UNCHANGED <<fs, strategies, sub_parsers, detected_parser, sessions,
                         lastDetect>>]_vars

\* C24 witness: supports answered true for a path in mixed case, with a
\* custom strategy registered on the dispatcher
C24_Witness ==
    /\ lastSupports.called
    /\ lastSupports.result
    /\ \E i, j \in 1..Len(lastSupports.path) :
          /\ lastSupports.path[i] # LowerChar(lastSupports.path[i])
          /\ lastSupports.path[j] # UpperChar(lastSupports.path[j])
    /\ Len(strategies) > 4

\* the built-in strategy _find_strategy reaches first for path when the
\* built-ins stand in the order given by the permutation perm
FirstBuiltInUnder(perm, path) ==
    LET hits == {k \in 1..4 : SupportsOf(BuiltIns[perm[k]], path)}
    IN  IF hits = {} THEN None ELSE BuiltIns[perm[Least(hits)]]

\* C28: the supports predicates of the four built-in strategies exclude one
\* another: at most one of them supports a path, so the order of the
\* built-ins does not change the strategy a path is dispatched to.
C28_BuiltInSupportsExclusive ==
    lastSupports.called =>
        /\ Cardinality({k \in 1..4 : SupportsOf(BuiltIns[k], lastSupports.path)}) <= 1
        /\ \A perm \in Permutations(1..4) :
              FirstBuiltInUnder(perm, lastSupports.path)
                 = FirstBuiltInUnder([k \in 1..4 |-> k], lastSupports.path)

\* C28 witness: the strategy asked does not support the path, which has the
\* suffix of one strategy in its middle and that of another at its end; the
\* latter supports it
C28_Witness ==
    /\ lastSupports.called
    /\ ~lastSupports.result
    /\ lastSupports.strategy = TXTParser
    /\ Len(lastSupports.path) = 8
    /\ SupportsOf(CSVParser, lastSupports.path)

(***************************************************************************)
(* Properties of what detect_format reads, checked under SpecDetect        *)
(***************************************************************************)
\* C26: detect_format never consumes the whole file: whatever the length of
\* the file it fetches at most sample_size + 1 physical lines, and the
\* handle it opened is closed when it returns, on the normal path and when
\* the read fails.
C26_DetectReadsBoundedPrefix ==
    lastDetect.called =>
        /\ lastDetect.fetched <= lastDetect.sample_size + 1
        /\ lastDetect.fetched <= Len(fs[lastDetect.path].lines)
        /\ lastDetect.handle # "open"
        /\ lastDetect.opened <=> lastDetect.handle = "closed"
        /\ (lastDetect.subs # <<>> /\ fs[lastDetect.path].status \in {"ok", Undecodable})
              => lastDetect.opened

\* C26 witness: on a file of more lines than sample_size + 1 the call
\* fetched sample_size + 1 lines, returned a sub-parser and left the handle
\* closed
C26_Witness ==
    /\ lastDetect.called
    /\ Len(fs[lastDetect.path].lines) > lastDetect.sample_size + 1
    /\ lastDetect.fetched = lastDetect.sample_size + 1
    /\ lastDetect.returned # None
    /\ lastDetect.handle = "closed"

(***************************************************************************)
(* Properties of detect_format among parse sessions, checked under         *)
(* SpecHistory                                                             *)
(***************************************************************************)
\* C25: detection is deterministic and independent of history: a
\* detect_format call on the same file, with the same sample size and the
\* same list of sub-parsers as the direct call before it, returns what that
\* call returned, whatever parse sessions ran on the LogParser in between.
C25_DetectionHistoryIndependent ==
    [][(/\ lastDetect.called
        /\ lastDetect'.called
        /\ lastDetect'.path = lastDetect.path
        /\ lastDetect'.sample_size = lastDetect.sample_size
        /\ lastDetect'.subs = lastDetect.subs)
       => /\ lastDetect'.returned = lastDetect.returned
          /\ lastDetect'.sample = lastDetect.sample]_vars

\* C25 witness: a parse session has left one sub-parser in the LogParser's
\* field, and a direct call on another file has returned the other one
C25_Witness ==
    /\ lastDetect.called
    /\ detected_parser \in Matchers
    /\ lastDetect.returned \in Matchers
    /\ lastDetect.returned # detected_parser
    /\ \E i \in Calls :
          /\ sessions[i].detected = detected_parser
          /\ sessions[i].path # lastDetect.path

(***************************************************************************)
(* Properties of the dispatcher as constructed and of when errors reach    *)
(* the caller, checked under Spec                                          *)
(***************************************************************************)
\* C27: on a dispatcher as FileParser() builds it, with no custom strategy
\* and no sub-parser registered, a session on a path ending in .log is the
\* LogParser's and fails on its first pull with the format-not-recognized
\* error whatever the file holds: detect_format returns no match without
\* opening the file.
C27_DefaultLogParserRecognizesNothing ==
    \A i \in Calls :
        (/\ sub_parsers = <<>>
         /\ sessions[i].registered = 4
         /\ sessions[i].path \in {PathLog, PathLogUp})
        => /\ sessions[i].strategy = LogParser
           /\ sessions[i].pc \in {"created", "failed", "closed"}
           /\ sessions[i].out = <<>>
           /\ sessions[i].opens = 0
           /\ sessions[i].handle = "none"
           /\ sessions[i].pc = "failed" =>
                 /\ sessions[i].raised = FormatNotRecognized
                 /\ sessions[i].detected = None
           /\ sessions[i].pc # "failed" => sessions[i].raised = NoError

\* C27 witness: the session failed on a readable file whose lines are all in
\* the Nginx format
C27_Witness ==
    \E i \in Calls :
        /\ sub_parsers = <<>>
        /\ strategies = BuiltIns
        /\ sessions[i].path = PathLogUp
        /\ Readable(FileOf(i))
        /\ Len(FileOf(i).lines) >= 2
        /\ \A k \in 1..Len(FileOf(i).lines) : NginxCanParse(FileOf(i).lines[k].text)
        /\ sessions[i].pc = "failed"
        /\ sessions[i].raised = FormatNotRecognized
        /\ sessions[i].opens = 0

\* C29: the unsupported-file-type error is raised by the FileParser.parse
\* call itself; for a supported path the call returns a sequence that has
\* opened no file and run no detection; a strategy's failure appears only at
\* a pull; a sequence never pulled opens nothing and raises nothing; and
\* detection uses the sub-parsers registered at the first pull.
C29_ErrorsSurfaceAtPull ==
    [][/\ Len(sessions') > Len(sessions) =>
             /\ detected_parser' = detected_parser
             /\ IF \E k \in 1..Len(strategies) :
                      Supports(strategies[k], sessions'[Len(sessions')].path)
                THEN /\ sessions'[Len(sessions')].pc = "created"
                     /\ sessions'[Len(sessions')].raised = NoError
                     /\ sessions'[Len(sessions')].detected = "-"
                ELSE /\ sessions'[Len(sessions')].pc = "unsupported"
                     /\ sessions'[Len(sessions')].raised = UnsupportedFileType
       /\ \A i \in 1..Len(sessions') :
             sessions'[i].pc = "created" =>
                /\ sessions'[i].opens = 0
                /\ sessions'[i].handle = "none"
                /\ sessions'[i].out = <<>>
                /\ sessions'[i].raised = NoError
       /\ \A i \in 1..Len(sessions) :
             /\ sessions'[i].raised # sessions[i].raised =>
                   /\ sessions[i].pc \in {"created", "suspended"}
                   /\ sessions'[i].pc = "failed"
                   /\ sessions'[i].raised # UnsupportedFileType
             /\ (/\ sessions[i].strategy = LogParser
                 /\ sessions[i].pc = "created"
                 /\ sessions'[i].pc \in {"suspended", "done", "failed"}) =>
                   sessions'[i].detected =
                      DetectFormatOn(sub_parsers, FileOf(i), DefaultSampleSize).returned]_vars

\* C29 witness: one session was pulled and failed on a file that does not
\* exist; another on such a file was never pulled and shows no error
C29_Witness ==
    \E i, j \in Calls :
        /\ ~Readable(FileOf(i))
        /\ sessions[i].pc = "created"
        /\ sessions[i].raised = NoError
        /\ sessions[i].opens = 0
        /\ ~Readable(FileOf(j))
        /\ sessions[j].pc = "failed"
        /\ sessions[j].raised.cls = Missing

\* the number of the first blank line of a file whose earlier lines are all
\* well-formed JSON, 0 when there is none
BlankBeforeMalformed(lines) ==
    LET blank == {k \in 1..Len(lines) :
                    /\ lines[k].text = ""
                    /\ \A j \in 1..(k - 1) : lines[j].text = JsonOkLine}
    IN  IF blank = {} THEN 0 ELSE Least(blank)

\* C30: JSONLParser does not skip blank lines: a blank line at position k,
\* after well-formed lines only, is a malformed record: the session yields
\* the records of lines 1..k-1 and then fails; a LogParser session reads
\* past blank lines to the end of its file.
C30_JsonlBlankLineIsMalformed ==
    /\ \A i \in JSONLSessions :
          (Readable(FileOf(i)) /\ BlankBeforeMalformed(FileOf(i).lines) > 0) =>
             /\ Len(sessions[i].out) <= BlankBeforeMalformed(FileOf(i).lines) - 1
             /\ sessions[i].pos <= BlankBeforeMalformed(FileOf(i).lines)
             /\ sessions[i].pc # "done"
             /\ sessions[i].pc = "failed" =>
                   /\ sessions[i].raised = MalformedRecord
                   /\ Len(sessions[i].out) = BlankBeforeMalformed(FileOf(i).lines) - 1
                   /\ sessions[i].pos = BlankBeforeMalformed(FileOf(i).lines)
    /\ \A i \in LogSessions :
          (/\ sessions[i].detected \in Matchers
           /\ \E k \in 1..Len(FileOf(i).lines) : FileOf(i).lines[k].text = "") =>
             /\ sessions[i].pc # "failed"
             /\ sessions[i].pc = "done" => sessions[i].pos = Len(FileOf(i).lines)

\* C30 witness: a JSONLParser session failed at the blank second line after
\* one record, a well-formed line following the blank one
C30_Witness ==
    \E i \in JSONLSessions :
        /\ Readable(FileOf(i))
        /\ BlankBeforeMalformed(FileOf(i).lines) = 2
        /\ FileOf(i).lines[3].text = JsonOkLine
        /\ sessions[i].pc = "failed"
        /\ sessions[i].raised = MalformedRecord
        /\ Len(sessions[i].out) = 1

====
